---------------------------- MODULE Spec2Model ----------------------------
(***************************************************************************)
(* Property Price Predictor in Tunisia (src/app.py).                       *)
(*                                                                         *)
(* app.py is a Streamlit script: the framework executes it top to bottom   *)
(* once per render cycle.  A render cycle is started by a browser session  *)
(* connecting (Connect), by a rerun of the page without a submission       *)
(* (Rerun) or by the form's submit button (Submit).  All input widgets     *)
(* live inside st.form (line 70): an edit of a widget changes only what    *)
(* the browser's form holds (variable form), it starts no render cycle     *)
(* and the script sees nothing of it until the form is submitted.          *)
(***************************************************************************)
EXTENDS Integers, Sequences, FiniteSets, TLC

VARIABLES
    modelFile,      \* property_price_model.pkl is present on disk
    dataFile,       \* cleaned_property_prices_tunisia.csv is present on disk
    dataset,        \* the rows (city, region) of the csv file
    cache,          \* st.cache_data holds the result of load_data()
    form,           \* what the browser's form controls hold (pending edits)
    widgets,        \* the widget values the script read in the last cycle
    regionOptions,  \* the options of the Region selectbox as last rendered
    screen,         \* what the last render cycle put on the page
    row,            \* the feature row handed to model.predict in the last cycle
    reply,          \* what model.predict did with it (NoReply: not called)
    trigger,        \* what started the last render cycle
    renders,        \* number of render cycles so far
    modelLoads,     \* executions of joblib.load (line 52)
    dataReads,      \* executions of pd.read_csv (line 60)
    indexBuilds,    \* executions of the city_to_regions construction (66-67)
    edits           \* number of edits of form controls so far

vars == <<modelFile, dataFile, dataset, cache, form, widgets, regionOptions,
          screen, row, reply, trigger, renders, modelLoads, dataReads, indexBuilds,
          edits>>

-----------------------------------------------------------------------------
(* Bounds of the model *)

MaxRenders == 3
MaxEdits == 3

-----------------------------------------------------------------------------
(* Strings are compared as Python compares them (code point order); the    *)
(* names that occur in the modelled datasets, in that order.               *)

NameOrder ==
    <<"Ariana", "Autres villes", "Ben Arous", "Centre Ville", "La Marsa",
      "Sfax", "Sfax Ville", "Thyna", "Tunis">>

Rank(s) == CHOOSE i \in 1..Len(NameOrder) : NameOrder[i] = s

RECURSIVE sorted(_)
sorted(S) ==
    IF S = {} THEN <<>>
    ELSE LET m == CHOOSE x \in S : \A y \in S : Rank(x) <= Rank(y)
         IN  <<m>> \o sorted(S \ {m})

Range(s) == {s[i] : i \in 1..Len(s)}

IndexOf(s, x) == CHOOSE i \in 1..Len(s) : s[i] = x

(* The csv files the model is run on: rows in file order, with repeats.    *)
DatasetA ==
    << [city |-> "Tunis", region |-> "La Marsa"],
       [city |-> "Sfax",  region |-> "Thyna"],
       [city |-> "Tunis", region |-> "Autres villes"],
       [city |-> "Sfax",  region |-> "Sfax Ville"],
       [city |-> "Tunis", region |-> "La Marsa"] >>

DatasetB ==
    << [city |-> "Ben Arous", region |-> "Centre Ville"],
       [city |-> "Ariana",    region |-> "Centre Ville"],
       [city |-> "Ben Arous", region |-> "Autres villes"],
       [city |-> "Ariana",    region |-> "Autres villes"] >>

Datasets == {DatasetA, DatasetB}

(* line 66: cities = sorted(df['city'].unique()) *)
cities(df) == sorted({df[i].city : i \in 1..Len(df)})

(* line 67: {city: sorted(df[df['city'] == city]['region'].unique())} *)
city_to_regions(df) ==
    [c \in Range(cities(df)) |->
        sorted({df[i].region : i \in {j \in 1..Len(df) : df[j].city = c}})]

(* line 95: index of "Tunis" if present, else 0 (1-based here) *)
CityDefault(cs) == IF "Tunis" \in Range(cs) THEN "Tunis" ELSE cs[1]

(* line 103: index of "Autres villes" if present, else 0 *)
RegionDefault(opts) ==
    IF "Autres villes" \in Range(opts) THEN "Autres villes" ELSE opts[1]

-----------------------------------------------------------------------------
(* The controls of the form, lines 78-125 *)

CategoryOptions ==
    <<"Appartements", "Villas", "Locaux industriels", "Offices",
      "Vacation Rentals", "Shared Housing">>
TypeOptions == <<"À Louer", "À Vendre">>

RoomMin == 0
RoomMax == 10
RoomDefault == 2
BathMin == 0
BathMax == 5
BathDefault == 1
SizeMin == 20
SizeMax == 1000
SizeDefault == 100

(* Variant: the size input declared with min_value=0.0. *)
SizeChoicesFromZero == {0, SizeMax}

(* The values a user is taken to pick in each control: the ends of the     *)
(* control's range and its default.                                        *)
CategoryChoices == {CategoryOptions[1], CategoryOptions[4]}
TypeChoices == Range(TypeOptions)
RoomChoices == {RoomMin, RoomDefault}
BathChoices == {BathMin, BathDefault}
SizeChoices == {SizeMin, SizeMax}

(* The state of the widgets when none has been rendered. *)
NoWidgets ==
    [category |-> "", type |-> "", city |-> "", region |-> "",
     room_count |-> 0, bathroom_count |-> 0, size |-> 0]

(* The widget values of a fresh session: every widget at its default. *)
DefaultWidgets(df) ==
    LET cs == cities(df)
        c  == CityDefault(cs)
    IN  [category |-> CategoryOptions[1], type |-> TypeOptions[1],
         city |-> c, region |-> RegionDefault(city_to_regions(df)[c]),
         room_count |-> RoomDefault, bathroom_count |-> BathDefault,
         size |-> SizeDefault]

(* Streamlit identifies a widget without a key by its parameters: label,   *)
(* options and index.  The Region selectbox (lines 100-105) is therefore   *)
(* the same widget from one cycle to the next exactly when its options     *)
(* (and with them its default index) are the same; a value sent for        *)
(* another widget identity is dropped and the widget starts at its index.  *)
RegionWidgetId(opts) == <<"Region", opts, IndexOf(opts, RegionDefault(opts))>>

(* Variant: the Region selectbox keeps the value sent by the browser       *)
(* whatever its options are (a widget identified by a fixed key).          *)
RegionValueKept(prevOpts, sent, opts) == sent

(* The value st.selectbox returns for Region in a cycle, given the options *)
(* the widget was last rendered with and the value the browser sent.       *)
RegionValue(prevOpts, sent, opts) ==
    IF prevOpts # <<>> /\ RegionWidgetId(prevOpts) = RegionWidgetId(opts)
    THEN sent
    ELSE RegionDefault(opts)

(* The values the widgets return to the script, lines 78-125. *)
ReadWidgets(prevOpts, sent, idx) ==
    [sent EXCEPT !.region = RegionValue(prevOpts, sent.region, idx[sent.city])]

-----------------------------------------------------------------------------
(* model.predict, line 151: an opaque predictor.  It returns a number or   *)
(* raises; the outcomes the model is run on.                               *)

AnomalyThreshold == 10000

PriceChoices == {5000, AnomalyThreshold, 15000}
FailureChoices == {"feature shape mismatch"}

PredictOutcomes ==
    {[ok |-> TRUE, price |-> p, msg |-> ""] : p \in PriceChoices}
    \cup {[ok |-> FALSE, price |-> 0, msg |-> m] : m \in FailureChoices}

NoReply == [ok |-> FALSE, price |-> 0, msg |-> ""]

-----------------------------------------------------------------------------
(* Elements a render cycle puts on the page.  price is the number an       *)
(* st.success element shows (0 in the others), detail the text of the      *)
(* exception an st.error element shows ("" in the others).                 *)

Element(kind, text, price, detail) ==
    [kind |-> kind, text |-> text, price |-> price, detail |-> detail]

SizeError == Element("error", "Size must be greater than 0.", 0, "")
CountError ==
    Element("error", "Room count and bathroom count cannot be negative.", 0, "")
PredictError(e) == Element("error", "Error making prediction: ", 0, e)
Success(p) == Element("success", "Predicted Price (TND)", p, "")
RentalLabel ==
    Element("markdown", "This is an estimated monthly rental price.", 0, "")
PurchaseLabel ==
    Element("markdown", "This is an estimated purchase price.", 0, "")
HighRentWarning ==
    Element("warning", "The predicted rental price seems unusually high.", 0, "")
LowSaleWarning ==
    Element("warning", "The predicted sale price seems unusually low.", 0, "")

NoRow == <<>>

(* lines 139-147: the one-row DataFrame, its columns in insertion order *)
input_data(w) ==
    << <<"category", w.category>>,
       <<"room_count", w.room_count>>,
       <<"bathroom_count", w.bathroom_count>>,
       <<"size", w.size>>,
       <<"type", w.type>>,
       <<"city", w.city>>,
       <<"region", w.region>> >>

(* lines 155-158: the context label *)
ContextLabel(w) ==
    IF w.type = "À Louer" THEN <<RentalLabel>> ELSE <<PurchaseLabel>>

(* Variant: the thresholds compared with >= and <=. *)
AnomalyWarningInclusive(w, price) ==
    IF w.type = "À Louer" /\ price >= AnomalyThreshold THEN <<HighRentWarning>>
    ELSE IF w.type = "À Vendre" /\ price <= AnomalyThreshold
         THEN <<LowSaleWarning>>
         ELSE <<>>

(* lines 161-164: the advisory warning *)
AnomalyWarning(w, price) ==
    IF w.type = "À Louer" /\ price > AnomalyThreshold THEN <<HighRentWarning>>
    ELSE IF w.type = "À Vendre" /\ price < AnomalyThreshold
         THEN <<LowSaleWarning>>
         ELSE <<>>

(* Variant: the except branch swallows the exception (except: pass). *)
PredictSwallowed(w, resp) ==
    IF resp.ok
    THEN <<Success(resp.price)>> \o ContextLabel(w) \o AnomalyWarning(w, resp.price)
    ELSE <<>>

(* lines 150-167: the call of the model and what is shown for it *)
Predict(w, resp) ==
    IF resp.ok
    THEN <<Success(resp.price)>> \o ContextLabel(w) \o AnomalyWarning(w, resp.price)
    ELSE <<PredictError(resp.msg)>>

(* Variant: the size compared with < instead of <=. *)
ValidateNonStrict(w) ==
    IF w.size < 0 THEN <<SizeError>>
    ELSE IF w.room_count < 0 \/ w.bathroom_count < 0 THEN <<CountError>>
         ELSE <<>>

(* lines 133-136: the validation of the inputs; the error shown, or <<>> *)
Validate(w) ==
    IF w.size <= 0 THEN <<SizeError>>
    ELSE IF w.room_count < 0 \/ w.bathroom_count < 0 THEN <<CountError>>
         ELSE <<>>

(* lines 131-167: what a cycle does with the widget values w when the      *)
(* form was submitted; resp is what model.predict does if it is called.    *)
HandleSubmission(w, resp) ==
    IF Validate(w) # <<>>
    THEN [outcome |-> Validate(w), row |-> NoRow, reply |-> NoReply]
    ELSE [outcome |-> Predict(w, resp), row |-> input_data(w), reply |-> resp]

(* line 131: the submission is handled only in a cycle the submit button   *)
(* started.                                                                *)
NotSubmitted == [outcome |-> <<>>, row |-> NoRow, reply |-> NoReply]

(* Variant: the handling not guarded by "if submitted". *)
IfSubmittedUnguarded(submitted, w, resp) == HandleSubmission(w, resp)

IfSubmitted(submitted, w, resp) ==
    IF submitted THEN HandleSubmission(w, resp) ELSE NotSubmitted

-----------------------------------------------------------------------------
(* What a render cycle leaves on the page. *)

Page(fatal, hasForm, outcome, tail) ==
    [title |-> TRUE, fatal |-> fatal, form |-> hasForm, outcome |-> outcome,
     expander |-> tail, footer |-> tail]

NoPage == [title |-> FALSE, fatal |-> "", form |-> FALSE, outcome |-> <<>>,
           expander |-> FALSE, footer |-> FALSE]

ModelMissing == "Model file 'property_price_model.pkl' not found."
DataMissing == "FileNotFoundError: cleaned_property_prices_tunisia.csv"

(* Variant: st.error without st.stop(): the script goes on to the form. *)
HaltNoModelContinues ==
    /\ modelLoads' = modelLoads + 1
    /\ screen' = Page(ModelMissing, TRUE, <<>>, TRUE)
    /\ form' = DefaultWidgets(dataset)
    /\ widgets' = DefaultWidgets(dataset)
    /\ regionOptions' = city_to_regions(dataset)[DefaultWidgets(dataset).city]
    /\ row' = NoRow
    /\ reply' = NoReply
    /\ UNCHANGED <<cache, dataReads, indexBuilds>>

(* lines 50-55: the model file is absent; st.error, then st.stop() ends    *)
(* the cycle.                                                              *)
HaltNoModel ==
    /\ modelLoads' = modelLoads + 1
    /\ screen' = Page(ModelMissing, FALSE, <<>>, FALSE)
    /\ form' = NoWidgets
    /\ widgets' = NoWidgets
    /\ regionOptions' = <<>>
    /\ row' = NoRow
    /\ reply' = NoReply
    /\ UNCHANGED <<cache, dataReads, indexBuilds>>

(* lines 58-63: load_data() is not cached and the csv file is absent; the  *)
(* exception is not caught and ends the cycle.                             *)
HaltNoData ==
    /\ modelLoads' = modelLoads + 1
    /\ dataReads' = dataReads + 1
    /\ screen' = Page(DataMissing, FALSE, <<>>, FALSE)
    /\ form' = NoWidgets
    /\ widgets' = NoWidgets
    /\ regionOptions' = <<>>
    /\ row' = NoRow
    /\ reply' = NoReply
    /\ UNCHANGED <<cache, indexBuilds>>

(* lines 50-188 when both loads succeed.  fresh: the session is new and    *)
(* every widget starts at its default; sent: the widget values the browser *)
(* sent; submitted: the value of st.form_submit_button; resp: what         *)
(* model.predict does if it is called.                                     *)
RenderPage(fresh, sent, submitted, resp) ==
    LET idx == city_to_regions(dataset)
        w   == IF fresh \/ regionOptions = <<>>
               THEN DefaultWidgets(dataset)
               ELSE ReadWidgets(regionOptions, sent, idx)
        h   == IfSubmitted(submitted, w, resp)
    IN  /\ modelLoads' = modelLoads + 1
        /\ dataReads' = IF cache THEN dataReads ELSE dataReads + 1
        /\ cache' = TRUE
        /\ indexBuilds' = indexBuilds + 1
        /\ widgets' = w
        /\ regionOptions' = idx[w.city]
        /\ form' = IF submitted \/ fresh \/ regionOptions = <<>> THEN w ELSE form
        /\ screen' = Page("", TRUE, h.outcome, TRUE)
        /\ row' = h.row
        /\ reply' = h.reply

(* One execution of app.py. *)
RunScript(trig, fresh, sent, submitted, resp) ==
    /\ renders < MaxRenders
    /\ renders' = renders + 1
    /\ trigger' = trig
    /\ IF ~modelFile THEN HaltNoModel
       ELSE IF ~cache /\ ~dataFile THEN HaltNoData
       ELSE RenderPage(fresh, sent, submitted, resp)
    /\ UNCHANGED <<modelFile, dataFile, dataset, edits>>

-----------------------------------------------------------------------------
(* The operations *)

(* A browser session connects (or the page is reloaded): a new session,    *)
(* the script runs with no widget state.                                   *)
Connect ==
    RunScript("connect", TRUE, NoWidgets, FALSE, CHOOSE r \in PredictOutcomes : TRUE)

(* The page is rerun without a submission; the browser sends the widget    *)
(* state of the last cycle, pending edits of the form stay in the browser. *)
Rerun ==
    /\ trigger # "none"
    /\ RunScript("rerun", FALSE, widgets, FALSE, CHOOSE r \in PredictOutcomes : TRUE)

(* The user presses "Predict Price": the browser sends what the form       *)
(* holds and the script runs with submitted = True.                        *)
Submit ==
    /\ screen.form
    /\ \E resp \in PredictOutcomes :
          RunScript("submit", FALSE, form, TRUE, resp)

(* The user edits one control of the form.  Inside st.form this changes    *)
(* the browser's form only.                                                *)
Edit(f) ==
    /\ screen.form
    /\ edits < MaxEdits
    /\ renders < MaxRenders
    /\ f # form
    /\ form' = f
    /\ edits' = edits + 1
    /\ UNCHANGED <<modelFile, dataFile, dataset, cache, widgets, regionOptions,
                   screen, row, reply, trigger, renders, modelLoads,
                   dataReads, indexBuilds>>

SetCategory == \E v \in CategoryChoices : Edit([form EXCEPT !.category = v])
SetType == \E v \in TypeChoices : Edit([form EXCEPT !.type = v])
(* options=cities, line 94 *)
SetCity == \E v \in Range(cities(dataset)) : Edit([form EXCEPT !.city = v])
(* the options the Region selectbox was rendered with, line 102 *)
SetRegion == \E v \in Range(regionOptions) : Edit([form EXCEPT !.region = v])
SetRoomCount == \E v \in RoomChoices : Edit([form EXCEPT !.room_count = v])
SetBathroomCount ==
    \E v \in BathChoices : Edit([form EXCEPT !.bathroom_count = v])
SetSize == \E v \in SizeChoices : Edit([form EXCEPT !.size = v])

Init ==
    /\ modelFile \in BOOLEAN
    /\ dataFile \in BOOLEAN
    /\ dataset \in Datasets
    /\ cache = FALSE
    /\ form = NoWidgets
    /\ widgets = NoWidgets
    /\ regionOptions = <<>>
    /\ screen = NoPage
    /\ row = NoRow
    /\ reply = NoReply
    /\ trigger = "none"
    /\ renders = 0
    /\ modelLoads = 0
    /\ dataReads = 0
    /\ indexBuilds = 0
    /\ edits = 0

Next ==
    \/ Connect
    \/ Rerun
    \/ Submit
    \/ SetCategory
    \/ SetType
    \/ SetCity
    \/ SetRegion
    \/ SetRoomCount
    \/ SetBathroomCount
    \/ SetSize

Spec == Init /\ [][Next]_vars

-----------------------------------------------------------------------------
(* The handling of a submission (lines 131-167) on widget values that are  *)
(* not confined to the ranges of the controls: the state after the first   *)
(* render cycle of a session, with the form holding any of the queries     *)
(* below, and submissions from there.                                      *)

QuerySizes == {-5, 0, SizeDefault}
QueryRooms == {-1, RoomMin, RoomDefault}
QueryBaths == {-1, BathDefault}

InitQuery ==
    /\ modelFile = TRUE
    /\ dataFile = TRUE
    /\ dataset \in Datasets
    /\ cache = TRUE
    /\ widgets = DefaultWidgets(dataset)
    /\ form \in {[DefaultWidgets(dataset) EXCEPT !.size = s, !.room_count = r,
                                                !.bathroom_count = b, !.type = t] :
                    s \in QuerySizes, r \in QueryRooms, b \in QueryBaths,
                    t \in TypeChoices}
    /\ regionOptions = city_to_regions(dataset)[DefaultWidgets(dataset).city]
    /\ screen = Page("", TRUE, <<>>, TRUE)
    /\ row = NoRow
    /\ reply = NoReply
    /\ trigger = "connect"
    /\ renders = 1
    /\ modelLoads = 1
    /\ dataReads = 1
    /\ indexBuilds = 1
    /\ edits = 0

NextQuery == Submit

SpecQuery == InitQuery /\ [][NextQuery]_vars

-----------------------------------------------------------------------------
(* Properties *)

Rendered == trigger # "none"
Submitted == trigger = "submit"
SubmitStep == renders' = renders + 1 /\ trigger' = "submit"
Kinds(k) == {i \in DOMAIN screen.outcome : screen.outcome[i].kind = k}
Shown(e) == e \in Range(screen.outcome)
CityRegionIndex == city_to_regions(dataset)

(* C1: a submitted query with size <= 0, or with a negative room or        *)
(* bathroom count, is never handed to model.predict, and a validation      *)
(* error (and nothing else) is shown for it.  Checked under SpecQuery.     *)
C1_InvalidQueryRejected ==
    (Submitted /\ (widgets.size <= 0 \/ widgets.room_count < 0
                      \/ widgets.bathroom_count < 0))
    => /\ row = NoRow
       /\ reply = NoReply
       /\ screen.outcome \in {<<SizeError>>, <<CountError>>}
       /\ (widgets.size <= 0 => screen.outcome = <<SizeError>>)

C1_Witness ==
    /\ Submitted
    /\ widgets.size = 0
    /\ widgets.room_count >= 0
    /\ widgets.bathroom_count >= 0
    /\ screen.outcome = <<SizeError>>
    /\ row = NoRow

(* C2: the feature row handed to model.predict has the fields category,    *)
(* room_count, bathroom_count, size, type, city, region in this order, and *)
(* each value is the value the form held for the field when the user       *)
(* submitted.                                                              *)
C2_RowIsSubmittedForm ==
    [][(SubmitStep /\ row' # NoRow) => row' = input_data(form)]_vars

(* C3: whenever the form is on the page, the options of the Region control *)
(* are CityRegionIndex[city] for the city the form holds, whatever was     *)
(* selected before and without a submission.                               *)
C3_RegionOptionsFollowCity ==
    screen.form => regionOptions = CityRegionIndex[form.city]

(* C4: in every feature row handed to model.predict the region belongs to  *)
(* CityRegionIndex[city] for the row's city.                               *)
C4_RowRegionInCity ==
    row # NoRow =>
        /\ row[6][1] = "city"
        /\ row[7][1] = "region"
        /\ row[6][2] \in DOMAIN CityRegionIndex
        /\ row[7][2] \in Range(CityRegionIndex[row[6][2]])

C4_Witness ==
    /\ Submitted
    /\ row # NoRow
    /\ row[6][2] # CityDefault(cities(dataset))
    /\ regionOptions # CityRegionIndex[CityDefault(cities(dataset))]

(* C5: on every successful prediction the price is shown, with exactly one *)
(* context label (rental for "À Louer", purchase for "À Vendre"); the high *)
(* rent warning is shown exactly when the type is "À Louer" and the price  *)
(* is above 10000, the low sale warning exactly when the type is           *)
(* "À Vendre" and the price is below 10000, and nothing else is shown.     *)
C5_LabelAndWarning ==
    (Submitted /\ reply.ok) =>
        LET o == screen.outcome
            t == row[5][2]
            p == reply.price
        IN  /\ o[1] = Success(p)
            /\ Kinds("success") = {1}
            /\ Kinds("markdown") = {2}
            /\ Kinds("error") = {}
            /\ (t = "À Louer" <=> o[2] = RentalLabel)
            /\ (t = "À Vendre" <=> o[2] = PurchaseLabel)
            /\ (Shown(HighRentWarning) <=> (t = "À Louer" /\ p > 10000))
            /\ (Shown(LowSaleWarning) <=> (t = "À Vendre" /\ p < 10000))
            /\ Kinds("warning") \subseteq {3}
            /\ Len(o) <= 3

C5_Witness ==
    /\ Submitted
    /\ reply.ok
    /\ reply.price = 5000
    /\ row[5][2] = "À Vendre"
    /\ screen.outcome = <<Success(5000), PurchaseLabel, LowSaleWarning>>

(* C6: when model.predict raises, the page shows the error with the text   *)
(* of the failure and no success message, label or warning; the cycle is   *)
(* completed (form, instructions and footer are rendered); and the next    *)
(* submission is validated and predicted from the form alone.              *)
PredictRaised == Submitted /\ row # NoRow /\ ~reply.ok

C6_FailureShown ==
    PredictRaised =>
        /\ reply.msg \in FailureChoices
        /\ screen.outcome = <<PredictError(reply.msg)>>
        /\ screen.fatal = ""
        /\ screen.form
        /\ screen.expander
        /\ screen.footer

C6_NextSubmissionUnaffected ==
    (PredictRaised /\ SubmitStep) =>
        /\ row' = input_data(ReadWidgets(regionOptions, form, CityRegionIndex))
        /\ reply' \in PredictOutcomes
        /\ screen'.outcome = Predict(widgets', reply')
        /\ widgets' = ReadWidgets(regionOptions, form, CityRegionIndex)

(* C6: a failure of model.predict is shown as an error and nothing else,   *)
(* the render cycle completes, and the next submission is handled from the *)
(* form and the model's reply alone.                                       *)
C6_PredictFailureRecovered ==
    [](C6_FailureShown) /\ [][C6_NextSubmissionUnaffected]_vars

C6_Witness ==
    /\ PredictRaised
    /\ screen.expander
    /\ screen.footer
    /\ screen.outcome = <<PredictError("feature shape mismatch")>>

(* C7: when the model file is absent the cycle shows the fatal error and   *)
(* halts before any form control: no form state exists, no submission is   *)
(* received and model.predict is never called.                             *)
C7_NoModelHalts ==
    ~modelFile =>
        /\ ~screen.form
        /\ form = NoWidgets
        /\ widgets = NoWidgets
        /\ regionOptions = <<>>
        /\ ~Submitted
        /\ row = NoRow
        /\ reply = NoReply
        /\ screen.outcome = <<>>
        /\ (Rendered => screen.fatal = ModelMissing)

C7_Witness ==
    /\ ~modelFile
    /\ trigger = "rerun"
    /\ screen.fatal = ModelMissing
    /\ ~screen.form

(* C8 as stated: the instructions and the footer are rendered in every     *)
(* render cycle, whatever the startup or submission outcome, and a         *)
(* submission outcome is on the page only in a cycle a submission started. *)
C8_StaticAlwaysRendered ==
    Rendered =>
        /\ screen.expander
        /\ screen.footer
        /\ (screen.outcome # <<>> => Submitted)

(* C8 as amended: the instructions and the footer are rendered in every    *)
(* render cycle in which the model and the dataset were loaded, whatever   *)
(* the submission outcome, and in no cycle that halted on a failed load;   *)
(* a submission outcome is on the page only in a cycle a submission        *)
(* started, and in every such cycle that did not halt.                     *)
C8_StaticRenderedUnlessHalted ==
    Rendered =>
        /\ (screen.fatal = "" => screen.expander /\ screen.footer)
        /\ (screen.fatal # "" => ~screen.expander /\ ~screen.footer)
        /\ (screen.outcome # <<>> => Submitted)
        /\ ((Submitted /\ screen.fatal = "") => screen.outcome # <<>>)

C8_Witness ==
    /\ trigger = "rerun"
    /\ screen.fatal = ""
    /\ renders >= 3
    /\ screen.outcome = <<>>
    /\ screen.expander
    /\ screen.footer

(* C9: in one process lifetime the model load, the dataset read and the    *)
(* construction of CityRegionIndex each execute exactly once, whatever the *)
(* number of render cycles.                                                *)
C9_LoadedOnce ==
    (Rendered /\ modelFile /\ dataFile) =>
        /\ modelLoads = 1
        /\ dataReads = 1
        /\ indexBuilds = 1

(* C10: every form state the controls can produce passes the validation:   *)
(* no submission shows a validation error and every submission reaches the *)
(* call of model.predict.                                                  *)
C10_ControlsAlwaysValid ==
    Submitted =>
        /\ ~Shown(SizeError)
        /\ ~Shown(CountError)
        /\ row # NoRow
        /\ reply \in PredictOutcomes
        /\ widgets.size \in SizeMin..SizeMax
        /\ widgets.room_count \in RoomMin..RoomMax
        /\ widgets.bathroom_count \in BathMin..BathMax

C10_Witness ==
    /\ Submitted
    /\ widgets.size = SizeMin
    /\ widgets.room_count = RoomMin
    /\ widgets.bathroom_count = BathMin
    /\ row # NoRow

=============================================================================
